---- MODULE Spec2Model ----
(***************************************************************************)
(* A model of mongo-request-handler (src/main.ts): the MongoDBRequest      *)
(* descriptor (endpoint, #baseQuery, query, the fullQuery getter) and the  *)
(* async function sendDBRequest returned by createSendDBRequestFunction.   *)
(*                                                                         *)
(* A JavaScript object is modelled as the sequence of its own enumerable   *)
(* members in insertion order, each member a record [key, value]; this is  *)
(* the order object spread and JSON.stringify walk.  A member value is a   *)
(* tagged record: JStr(s) for a string, JObj(m) for a nested object.       *)
(*                                                                         *)
(* Spec lets callers assign to one fresh descriptor and dispatch it at     *)
(* any moment; SpecRead has them read fullQuery between assignments;       *)
(* SpecReuse sends one prepared descriptor again and again, one request at *)
(* a time; SpecConc has two prepared descriptors in flight together.       *)
(***************************************************************************)
EXTENDS Integers, Sequences, FiniteSets, TLC

(***************************************************************************)
(* Bounds of the model.                                                    *)
(***************************************************************************)
\* how many operations (assignments to descriptor fields and invocations of
\* sendDBRequest) a behaviour may make
MaxSteps == 4
\* how many times sendDBRequest is invoked in a behaviour
MaxCalls == 2

(***************************************************************************)
(* JavaScript values.                                                      *)
(***************************************************************************)
JStr(s) == [type |-> "string", value |-> s]
JObj(m) == [type |-> "object", members |-> m]
Member(k, v) == [key |-> k, value |-> v]
\* the literal {}
EmptyObject == << >>
\* the value of a property that was never assigned
Undefined == [type |-> "undefined"]
\* endpoint: T | null = null
Null == "<null>"

\* Object.keys(obj), as a set
Keys(obj) == {obj[i].key : i \in DOMAIN obj}
HasKey(obj, k) == \E i \in DOMAIN obj : obj[i].key = k
\* obj[k] for a key the object has
Get(obj, k) == obj[CHOOSE i \in DOMAIN obj : obj[i].key = k].value
\* the mapping an object denotes: key |-> value, order forgotten
AsMap(obj) == [k \in Keys(obj) |-> Get(obj, k)]

\* obj[k] = v: an existing member keeps its place, a new one goes last
Put(obj, k, v) ==
    IF HasKey(obj, k)
    THEN [i \in DOMAIN obj |-> IF obj[i].key = k THEN Member(k, v) ELSE obj[i]]
    ELSE Append(obj, Member(k, v))

\* the spread element ...src inside an object literal that so far holds target
RECURSIVE SpreadInto(_, _)
SpreadInto(target, src) ==
    IF src = << >> THEN target
    ELSE SpreadInto(Put(target, Head(src).key, Head(src).value), Tail(src))

(***************************************************************************)
(* The connection configuration closed over by sendDBRequest               *)
(* (src/mod.ts, databaseConfig of the test settings).                      *)
(***************************************************************************)
config ==
    [baseUrl    |-> "https://data.example/action",
     dataSource |-> "Cluster0",
     database   |-> "sample_mflix",
     apiKey     |-> "secret-key"]

(***************************************************************************)
(* The values the callers of this model assign and the transport returns.  *)
(***************************************************************************)
\* the descriptors (instances of MongoDBRequest) that exist
Descriptors == {"reqA", "reqB"}
\* the descriptors a behaviour of Spec works with
Reqs == {"reqA"}
\* request.endpoint: null, the empty string, or an endpoint name
Endpoints == {Null, "", "/find", "/findOne"}
\* { collection: "books" }
QBooks == << Member("collection", JStr("books")) >>
\* { collection: "movies", filter: { genre: "Sci-Fi" } }
QMovies ==
    << Member("collection", JStr("movies")),
       Member("filter", JObj(<< Member("genre", JStr("Sci-Fi")) >>)) >>
\* { filter: { author: "Author Name" } }
QFilter ==
    << Member("filter", JObj(<< Member("author", JStr("Author Name")) >>)) >>
\* { database: "other_db", dataSource: "Cluster1" }
QOverride ==
    << Member("database", JStr("other_db")),
       Member("dataSource", JStr("Cluster1")) >>
QueryInputs == {EmptyObject, QBooks, QMovies, QFilter, QOverride}
\* { "X-Custom": "v" } and { "Content-Type": "text/plain" }
HeaderInputs ==
    { << Member("X-Custom", "v") >>,
      << Member("Content-Type", "text/plain") >> }

VARIABLES
    endpoint,     \* endpoint[r]: the field endpoint of descriptor r
    baseQuery,    \* baseQuery[r]: the private field #baseQuery
    query,        \* query[r]: the field query
    headers,      \* headers[r]: the property headers callers assign
    assigned,     \* assigned[r]: the arguments given to the baseQuery setter, in order
    queryArg,     \* queryArg[r]: the value last assigned to the field query
    lastRead,     \* lastRead[r]: how many reads of fullQuery were made, and what
                  \* the last one returned
    nsteps,       \* how many operations were made so far
    pc,           \* pc[c]: where call c of sendDBRequest stands: "idle", "fetch"
                  \* (awaiting fetch), "json" (awaiting response.json()), "done"
    callReq,      \* callReq[c]: the descriptor call c was given
    snap,         \* snap[c]: the descriptor's fields when call c was invoked
    fetchLog,     \* the calls made to fetch, in order: caller, url, requestInit
    response,     \* response[c]: the Response the fetch of call c resolved with
    outcome,      \* outcome[c]: what the promise of call c settled with
    settled       \* settled[c]: how many times the promise of call c settled

descVars == <<endpoint, baseQuery, query, headers, assigned, queryArg, lastRead, nsteps>>
callVars == <<pc, callReq, snap, fetchLog, response, outcome, settled>>
vars == <<endpoint, baseQuery, query, headers, assigned, queryArg, lastRead, nsteps,
          pc, callReq, snap, fetchLog, response, outcome, settled>>

(***************************************************************************)
(* class MongoDBRequest                                                    *)
(***************************************************************************)
\* { ...a, ...b }
Spread2(a, b) == SpreadInto(SpreadInto(EmptyObject, a), b)

\* get baseQuery()
GetBaseQuery(r) == baseQuery[r]

\* a getter that spreads in the wrong order: { ...this.query, ...this.baseQuery }
fullQueryBaseWins(r) == Spread2(query[r], GetBaseQuery(r))

\* get fullQuery(): { ...this.baseQuery, ...this.query }
fullQuery(r) == Spread2(GetBaseQuery(r), query[r])

\* no read of fullQuery was made yet
NotRead == [reads |-> 0, value |-> EmptyObject]

\* the state new MongoDBRequest() leaves
InitDescriptors ==
    /\ endpoint = [r \in Descriptors |-> Null]
    /\ baseQuery = [r \in Descriptors |-> EmptyObject]
    /\ query = [r \in Descriptors |-> EmptyObject]
    /\ headers = [r \in Descriptors |-> Undefined]
    /\ assigned = [r \in Descriptors |-> << >>]
    /\ queryArg = [r \in Descriptors |-> EmptyObject]
    /\ lastRead = [r \in Descriptors |-> NotRead]
    /\ nsteps = 0

\* request.endpoint = e
SetEndpoint(r, e) ==
    /\ nsteps < MaxSteps
    /\ endpoint' = [endpoint EXCEPT ![r] = e]
    /\ nsteps' = nsteps + 1
    /\ UNCHANGED <<baseQuery, query, headers, assigned, queryArg, lastRead>>
    /\ UNCHANGED callVars

\* a setter that spreads in the wrong order: { ...newBaseQuery, ...this.#baseQuery }
MergedBaseQueryOldWins(old, newBaseQuery) == Spread2(newBaseQuery, old)

\* the value the baseQuery setter stores
MergedBaseQuery(old, newBaseQuery) == Spread2(old, newBaseQuery)

\* request.baseQuery = newBaseQuery  (set baseQuery)
SetBaseQuery(r, newBaseQuery) ==
    /\ nsteps < MaxSteps
    /\ baseQuery' = [baseQuery EXCEPT ![r] = MergedBaseQuery(baseQuery[r], newBaseQuery)]
    /\ assigned' = [assigned EXCEPT ![r] = Append(@, newBaseQuery)]
    /\ nsteps' = nsteps + 1
    /\ UNCHANGED <<endpoint, query, headers, queryArg, lastRead>>
    /\ UNCHANGED callVars

\* a query made a merging accessor, as baseQuery is
StoredQueryMerged(old, q) == Spread2(old, q)

\* an assignment that keeps the members of the query stored before
StoredQueryKeepsOld(old, q) == Spread2(q, old)

\* the value an assignment to the field query stores
StoredQuery(old, q) == q

\* request.query = q
SetQuery(r, q) ==
    /\ nsteps < MaxSteps
    /\ query' = [query EXCEPT ![r] = StoredQuery(query[r], q)]
    /\ queryArg' = [queryArg EXCEPT ![r] = q]
    /\ nsteps' = nsteps + 1
    /\ UNCHANGED <<endpoint, baseQuery, headers, assigned, lastRead>>
    /\ UNCHANGED callVars

\* a headers made a merging accessor, as baseQuery is
SetHeadersMerged(r, h) ==
    /\ nsteps < MaxSteps
    /\ headers' = [headers EXCEPT ![r] =
           JObj(Spread2(IF @.type = "object" THEN @.members ELSE EmptyObject, h))]
    /\ nsteps' = nsteps + 1
    /\ UNCHANGED <<endpoint, baseQuery, query, assigned, queryArg, lastRead>>
    /\ UNCHANGED callVars

\* request.headers = h
SetHeaders(r, h) ==
    /\ nsteps < MaxSteps
    /\ headers' = [headers EXCEPT ![r] = JObj(h)]
    /\ nsteps' = nsteps + 1
    /\ UNCHANGED <<endpoint, baseQuery, query, assigned, queryArg, lastRead>>
    /\ UNCHANGED callVars

\* a getter that keeps the object it built first and returns it ever after
ReadFullQueryCached(r) ==
    /\ nsteps < MaxSteps
    /\ lastRead' = [lastRead EXCEPT ![r] =
           [reads |-> @.reads + 1,
            value |-> IF @.reads > 0 THEN @.value ELSE fullQuery(r)]]
    /\ nsteps' = nsteps + 1
    /\ UNCHANGED <<endpoint, baseQuery, query, headers, assigned, queryArg>>
    /\ UNCHANGED callVars

\* a caller evaluates request.fullQuery
ReadFullQuery(r) ==
    /\ nsteps < MaxSteps
    /\ lastRead' = [lastRead EXCEPT ![r] =
           [reads |-> @.reads + 1, value |-> fullQuery(r)]]
    /\ nsteps' = nsteps + 1
    /\ UNCHANGED <<endpoint, baseQuery, query, headers, assigned, queryArg>>
    /\ UNCHANGED callVars

(***************************************************************************)
(* The transport (the global fetch) and its Response.                      *)
(***************************************************************************)
\* JSON.stringify of an object whose values are strings and nested objects
RECURSIVE StringifyMembers(_)
RECURSIVE StringifyValue(_)
StringifyValue(v) ==
    IF v.type = "string" THEN "\"" \o v.value \o "\""
    ELSE "{" \o StringifyMembers(v.members) \o "}"
StringifyMembers(m) ==
    IF m = << >> THEN ""
    ELSE "\"" \o Head(m).key \o "\":" \o StringifyValue(Head(m).value)
         \o (IF Tail(m) = << >> THEN "" ELSE "," \o StringifyMembers(Tail(m)))
JSONStringify(obj) == "{" \o StringifyMembers(obj) \o "}"

\* the error a rejected fetch carries
FetchFailed == [type |-> "Error", name |-> "TypeError", message |-> "Fetch failed"]
TransportErrors == {FetchFailed}
\* the error response.json() rejects with on a body that is not JSON
ParseFailed ==
    [type |-> "Error", name |-> "SyntaxError", message |-> "Unexpected end of JSON input"]

\* the responses the transport resolves with: status and body text
Responses ==
    { [status |-> 200, text |-> "{\"insertedId\":\"1\"}"],
      [status |-> 400, text |-> "{\"error\":\"no authentication methods were specified\"}"],
      [status |-> 404, text |-> ""] }
\* what response.json() settles with, for the body texts of Responses
ResponseJson(resp) ==
    CASE resp.text = "{\"insertedId\":\"1\"}" ->
           [ok |-> TRUE, value |-> << Member("insertedId", JStr("1")) >>]
      [] resp.text = "{\"error\":\"no authentication methods were specified\"}" ->
           [ok |-> TRUE,
            value |-> << Member("error", JStr("no authentication methods were specified")) >>]
      [] OTHER -> [ok |-> FALSE, error |-> ParseFailed]

(***************************************************************************)
(* sendDBRequest: one invocation is a call c; it runs from its start to    *)
(* the fetch in one step, and resumes when the awaited promise settles.    *)
(***************************************************************************)
Calls == 1 .. MaxCalls

NoReq == "<none>"
NoSnap == [endpoint |-> Null, baseQuery |-> EmptyObject, query |-> EmptyObject,
           headers |-> Undefined]
NoResponse == [status |-> 0, text |-> ""]
Pending == [kind |-> "pending"]

\* class MRHMissingParameterError
MRHMissingParameterError(parameter) ==
    [kind |-> "MRHMissingParameterError",
     parameter |-> parameter,
     message |-> "Error: Missing required parameter: " \o parameter]

\* class MRHRequestError: the three public fields (the composed message
\* text of the Error is left out)
MRHRequestError(e, q, mongoErrorMessage) ==
    [kind |-> "MRHRequestError",
     endpoint |-> e,
     query |-> q,
     mongoErrorMessage |-> mongoErrorMessage]

\* an isExistQuery whose comparison admits the empty object
isExistQueryAtLeastZero(q) == Cardinality(Keys(q)) >= 0

\* function isExistQuery
isExistQuery(q) == Cardinality(Keys(q)) > 0

\* !request.endpoint
EndpointMissing(r) == endpoint[r] = Null \/ endpoint[r] = ""

\* the two checks made in the other order
MissingParameterQueryFirst(r) ==
    IF ~isExistQuery(fullQuery(r)) THEN "Query"
    ELSE IF EndpointMissing(r) THEN "Endpoint"
    ELSE "none"

\* the precondition checks of sendDBRequest, in the order the code makes them
MissingParameter(r) ==
    IF EndpointMissing(r) THEN "Endpoint"
    ELSE IF ~isExistQuery(fullQuery(r)) THEN "Query"
    ELSE "none"

\* a url built by joining the two parts with a slash
RequestUrlJoined(r) == config.baseUrl \o "/" \o endpoint[r]

\* const url = baseUrl + request.endpoint
RequestUrl(r) == config.baseUrl \o endpoint[r]

\* a body whose injected fields come last: { ...request.fullQuery, dataSource, database }
RequestBodyObjectConfigLast(r) ==
    SpreadInto(fullQuery(r),
               << Member("dataSource", JStr(config.dataSource)),
                  Member("database", JStr(config.database)) >>)

\* const query = { dataSource, database, ...request.fullQuery }
RequestBodyObject(r) ==
    SpreadInto(<< Member("dataSource", JStr(config.dataSource)),
                  Member("database", JStr(config.database)) >>,
               fullQuery(r))

\* requestInit.headers
RequestHeaders(r) ==
    << Member("Content-Type", "application/json"),
       Member("api-key", config.apiKey) >>

\* const requestInit: RequestInit = { method, headers, body }
RequestInit(r) ==
    [method |-> "POST",
     headers |-> RequestHeaders(r),
     body |-> JSONStringify(RequestBodyObject(r))]

SnapOf(r) ==
    [endpoint |-> endpoint[r], baseQuery |-> baseQuery[r], query |-> query[r],
     headers |-> headers[r]]

\* a dispatcher that keeps the descriptor of its latest invocation in a
\* variable shared by all invocations, and reads that one in the catch block
CaughtErrorOfLatestCall(r, error) ==
    LET latest == CHOOSE c \in Calls :
                      /\ pc[c] # "idle"
                      /\ \A d \in Calls : pc[d] # "idle" => d <= c
    IN  MRHRequestError(endpoint[callReq[latest]], fullQuery(callReq[latest]), error)

\* the error the catch block throws: it reads the descriptor when it runs
CaughtError(r, error) == MRHRequestError(endpoint[r], fullQuery(r), error)

\* a sendDBRequest that calls fetch before it validates
DispatchFetchFirst(c, r) ==
    /\ pc[c] = "idle"
    /\ \A d \in Calls : d < c => pc[d] # "idle"
    /\ nsteps < MaxSteps
    /\ nsteps' = nsteps + 1
    /\ callReq' = [callReq EXCEPT ![c] = r]
    /\ snap' = [snap EXCEPT ![c] = SnapOf(r)]
    /\ fetchLog' = Append(fetchLog,
           [caller |-> c, url |-> RequestUrl(r), init |-> RequestInit(r)])
    /\ IF MissingParameter(r) # "none"
       THEN /\ pc' = [pc EXCEPT ![c] = "done"]
            /\ outcome' = [outcome EXCEPT ![c] = MRHMissingParameterError(MissingParameter(r))]
            /\ settled' = [settled EXCEPT ![c] = @ + 1]
       ELSE /\ pc' = [pc EXCEPT ![c] = "fetch"]
            /\ UNCHANGED <<outcome, settled>>
    /\ UNCHANGED <<response, endpoint, baseQuery, query, headers, assigned, queryArg, lastRead>>

\* a sendDBRequest that empties request.query once it has built the request
DispatchConsumesQuery(c, r) ==
    /\ pc[c] = "idle"
    /\ \A d \in Calls : d < c => pc[d] # "idle"
    /\ nsteps < MaxSteps
    /\ nsteps' = nsteps + 1
    /\ callReq' = [callReq EXCEPT ![c] = r]
    /\ snap' = [snap EXCEPT ![c] = SnapOf(r)]
    /\ IF MissingParameter(r) # "none"
       THEN /\ pc' = [pc EXCEPT ![c] = "done"]
            /\ outcome' = [outcome EXCEPT ![c] = MRHMissingParameterError(MissingParameter(r))]
            /\ settled' = [settled EXCEPT ![c] = @ + 1]
            /\ UNCHANGED <<fetchLog, query>>
       ELSE /\ pc' = [pc EXCEPT ![c] = "fetch"]
            /\ fetchLog' = Append(fetchLog,
                   [caller |-> c, url |-> RequestUrl(r), init |-> RequestInit(r)])
            /\ query' = [query EXCEPT ![r] = EmptyObject]
            /\ UNCHANGED <<outcome, settled>>
    /\ UNCHANGED <<response, endpoint, baseQuery, headers, assigned, queryArg, lastRead>>

\* sendDBRequest(request) is invoked: validation, then the call of fetch
Dispatch(c, r) ==
    /\ pc[c] = "idle"
    /\ \A d \in Calls : d < c => pc[d] # "idle"
    /\ nsteps < MaxSteps
    /\ nsteps' = nsteps + 1
    /\ callReq' = [callReq EXCEPT ![c] = r]
    /\ snap' = [snap EXCEPT ![c] = SnapOf(r)]
    /\ IF MissingParameter(r) # "none"
       THEN /\ pc' = [pc EXCEPT ![c] = "done"]
            /\ outcome' = [outcome EXCEPT ![c] = MRHMissingParameterError(MissingParameter(r))]
            /\ settled' = [settled EXCEPT ![c] = @ + 1]
            /\ UNCHANGED fetchLog
       ELSE /\ pc' = [pc EXCEPT ![c] = "fetch"]
            /\ fetchLog' = Append(fetchLog,
                   [caller |-> c, url |-> RequestUrl(r), init |-> RequestInit(r)])
            /\ UNCHANGED <<outcome, settled>>
    /\ UNCHANGED <<response, endpoint, baseQuery, query, headers, assigned, queryArg, lastRead>>

\* the promise of fetch resolves with a Response
FetchResolve(c, resp) ==
    /\ pc[c] = "fetch"
    /\ pc' = [pc EXCEPT ![c] = "json"]
    /\ response' = [response EXCEPT ![c] = resp]
    /\ UNCHANGED <<callReq, snap, fetchLog, outcome, settled>>
    /\ UNCHANGED descVars

\* a catch block that tries the request once more
FetchRejectRetry(c, error) ==
    /\ pc[c] = "fetch"
    /\ fetchLog' = Append(fetchLog,
           [caller |-> c, url |-> RequestUrl(callReq[c]), init |-> RequestInit(callReq[c])])
    /\ UNCHANGED <<pc, callReq, snap, response, outcome, settled>>
    /\ UNCHANGED descVars

\* the promise of fetch rejects: the catch block runs
FetchReject(c, error) ==
    /\ pc[c] = "fetch"
    /\ pc' = [pc EXCEPT ![c] = "done"]
    /\ outcome' = [outcome EXCEPT ![c] = CaughtError(callReq[c], error)]
    /\ settled' = [settled EXCEPT ![c] = @ + 1]
    /\ UNCHANGED <<callReq, snap, fetchLog, response>>
    /\ UNCHANGED descVars

\* a sendDBRequest that tests response.ok and throws on a status outside 200..299
JsonSettleChecksStatus(c) ==
    /\ pc[c] = "json"
    /\ pc' = [pc EXCEPT ![c] = "done"]
    /\ outcome' = [outcome EXCEPT ![c] =
           IF response[c].status \notin 200 .. 299
           THEN CaughtError(callReq[c], JStr("status"))
           ELSE IF ResponseJson(response[c]).ok
           THEN [kind |-> "result", value |-> ResponseJson(response[c]).value]
           ELSE CaughtError(callReq[c], ResponseJson(response[c]).error)]
    /\ settled' = [settled EXCEPT ![c] = @ + 1]
    /\ UNCHANGED <<callReq, snap, fetchLog, response>>
    /\ UNCHANGED descVars

\* a sendDBRequest whose try block ends before response.json(): the parse
\* failure leaves the function as it is
JsonSettleParseOutsideTry(c) ==
    /\ pc[c] = "json"
    /\ pc' = [pc EXCEPT ![c] = "done"]
    /\ outcome' = [outcome EXCEPT ![c] =
           IF ResponseJson(response[c]).ok
           THEN [kind |-> "result", value |-> ResponseJson(response[c]).value]
           ELSE [kind |-> "SyntaxError", error |-> ResponseJson(response[c]).error]]
    /\ settled' = [settled EXCEPT ![c] = @ + 1]
    /\ UNCHANGED <<callReq, snap, fetchLog, response>>
    /\ UNCHANGED descVars

\* a catch block that swallows the parse failure and awaits a promise that
\* never settles
JsonSettleHangsOnParseFailure(c) ==
    /\ pc[c] = "json"
    /\ ResponseJson(response[c]).ok
    /\ pc' = [pc EXCEPT ![c] = "done"]
    /\ outcome' = [outcome EXCEPT ![c] =
           [kind |-> "result", value |-> ResponseJson(response[c]).value]]
    /\ settled' = [settled EXCEPT ![c] = @ + 1]
    /\ UNCHANGED <<callReq, snap, fetchLog, response>>
    /\ UNCHANGED descVars

\* the promise of response.json() settles: return result, or the catch block
JsonSettle(c) ==
    /\ pc[c] = "json"
    /\ pc' = [pc EXCEPT ![c] = "done"]
    /\ outcome' = [outcome EXCEPT ![c] =
           IF ResponseJson(response[c]).ok
           THEN [kind |-> "result", value |-> ResponseJson(response[c]).value]
           ELSE CaughtError(callReq[c], ResponseJson(response[c]).error)]
    /\ settled' = [settled EXCEPT ![c] = @ + 1]
    /\ UNCHANGED <<callReq, snap, fetchLog, response>>
    /\ UNCHANGED descVars

Init ==
    /\ InitDescriptors
    /\ pc = [c \in Calls |-> "idle"]
    /\ callReq = [c \in Calls |-> NoReq]
    /\ snap = [c \in Calls |-> NoSnap]
    /\ fetchLog = << >>
    /\ response = [c \in Calls |-> NoResponse]
    /\ outcome = [c \in Calls |-> Pending]
    /\ settled = [c \in Calls |-> 0]

Next ==
    \/ \E r \in Reqs, e \in Endpoints : SetEndpoint(r, e)
    \/ \E r \in Reqs, q \in QueryInputs : SetBaseQuery(r, q)
    \/ \E r \in Reqs, q \in QueryInputs : SetQuery(r, q)
    \/ \E r \in Reqs, h \in HeaderInputs : SetHeaders(r, h)
    \/ \E c \in Calls, r \in Reqs : Dispatch(c, r)
    \/ \E c \in Calls, resp \in Responses : FetchResolve(c, resp)
    \/ \E c \in Calls, error \in TransportErrors : FetchReject(c, error)
    \/ \E c \in Calls : JsonSettle(c)

Spec == Init /\ [][Next]_vars

(***************************************************************************)
(* Properties of the descriptor.                                           *)
(***************************************************************************)
\* an object holds each of its keys once
UniqueKeys(obj) == Cardinality(Keys(obj)) = Len(obj)

(***************************************************************************)
(* Callers that assign to a descriptor and read its effective query.       *)
(***************************************************************************)
NextRead ==
    \/ \E r \in Reqs, e \in Endpoints : SetEndpoint(r, e)
    \/ \E r \in Reqs, q \in QueryInputs : SetBaseQuery(r, q)
    \/ \E r \in Reqs, q \in QueryInputs : SetQuery(r, q)
    \/ \E r \in Reqs : ReadFullQuery(r)

SpecRead == Init /\ [][NextRead]_vars

(***************************************************************************)
(* One descriptor made ready once and used for one request after another:  *)
(* the caller awaits each sendDBRequest before it assigns again.           *)
(***************************************************************************)
\* the base queries a subclass constructor assigns (or none)
ReuseBaseQueries == {EmptyObject, QBooks, QFilter}

\* reqA after its constructor and the assignments that prepare the first
\* request; nsteps counts the operations made from here on
InitReuse ==
    \E e \in {"/find", "/findOne"}, b \in ReuseBaseQueries, q \in QueryInputs :
        /\ endpoint = [r \in Descriptors |-> IF r = "reqA" THEN e ELSE Null]
        /\ baseQuery = [r \in Descriptors |->
               IF r = "reqA" THEN MergedBaseQuery(EmptyObject, b) ELSE EmptyObject]
        /\ assigned = [r \in Descriptors |->
               IF r = "reqA" /\ b # EmptyObject THEN <<b>> ELSE << >>]
        /\ query = [r \in Descriptors |->
               IF r = "reqA" THEN StoredQuery(EmptyObject, q) ELSE EmptyObject]
        /\ queryArg = [r \in Descriptors |-> IF r = "reqA" THEN q ELSE EmptyObject]
        /\ headers = [r \in Descriptors |-> Undefined]
        /\ lastRead = [r \in Descriptors |-> NotRead]
        /\ nsteps = 0
        /\ pc = [c \in Calls |-> "idle"]
        /\ callReq = [c \in Calls |-> NoReq]
        /\ snap = [c \in Calls |-> NoSnap]
        /\ fetchLog = << >>
        /\ response = [c \in Calls |-> NoResponse]
        /\ outcome = [c \in Calls |-> Pending]
        /\ settled = [c \in Calls |-> 0]

\* no sendDBRequest is awaited
NoCallInFlight == \A c \in Calls : pc[c] \in {"idle", "done"}

ReuseSetEndpoint(r, e) == NoCallInFlight /\ SetEndpoint(r, e)
ReuseSetQuery(r, q) == NoCallInFlight /\ SetQuery(r, q)
ReuseDispatch(c, r) == NoCallInFlight /\ Dispatch(c, r)

NextReuse ==
    \/ \E r \in Reqs, e \in Endpoints : ReuseSetEndpoint(r, e)
    \/ \E r \in Reqs, q \in QueryInputs : ReuseSetQuery(r, q)
    \/ \E c \in Calls, r \in Reqs : ReuseDispatch(c, r)
    \/ \E c \in Calls, resp \in Responses : FetchResolve(c, resp)
    \/ \E c \in Calls, error \in TransportErrors : FetchReject(c, error)
    \/ \E c \in Calls : JsonSettle(c)

SpecReuse == InitReuse /\ [][NextReuse]_vars

(***************************************************************************)
(* Two descriptors, each made ready for a request, dispatched through the  *)
(* same sendDBRequest without awaiting one before the other.               *)
(***************************************************************************)
\* the fields of a descriptor ready to be sent
ReadyDescriptors ==
    [endpoint : {"/find", "/findOne"},
     baseQuery : {EmptyObject, QBooks},
     query : {QMovies, QFilter}]

InitConc ==
    \E a \in ReadyDescriptors, b \in ReadyDescriptors :
        LET ready == [r \in Descriptors |-> IF r = "reqA" THEN a ELSE b] IN
        /\ endpoint = [r \in Descriptors |-> ready[r].endpoint]
        /\ baseQuery = [r \in Descriptors |->
               MergedBaseQuery(EmptyObject, ready[r].baseQuery)]
        /\ assigned = [r \in Descriptors |->
               IF ready[r].baseQuery # EmptyObject
               THEN <<ready[r].baseQuery>> ELSE << >>]
        /\ query = [r \in Descriptors |-> StoredQuery(EmptyObject, ready[r].query)]
        /\ queryArg = [r \in Descriptors |-> ready[r].query]
        /\ headers = [r \in Descriptors |-> Undefined]
        /\ lastRead = [r \in Descriptors |-> NotRead]
        /\ nsteps = 0
        /\ pc = [c \in Calls |-> "idle"]
        /\ callReq = [c \in Calls |-> NoReq]
        /\ snap = [c \in Calls |-> NoSnap]
        /\ fetchLog = << >>
        /\ response = [c \in Calls |-> NoResponse]
        /\ outcome = [c \in Calls |-> Pending]
        /\ settled = [c \in Calls |-> 0]

NextConc ==
    \/ \E c \in Calls, r \in Descriptors : Dispatch(c, r)
    \/ \E c \in Calls, resp \in Responses : FetchResolve(c, resp)
    \/ \E c \in Calls, error \in TransportErrors : FetchReject(c, error)
    \/ \E c \in Calls : JsonSettle(c)

SpecConc == InitConc /\ [][NextConc]_vars

(***************************************************************************)
(* The same callers with a transport that settles: the promise of fetch    *)
(* of every call resolves or rejects, the promise of response.json()       *)
(* settles, and the event loop resumes the awaiting function.              *)
(***************************************************************************)
\* the promise of fetch of call c settles, one way or the other
FetchSettle(c) ==
    \/ \E resp \in Responses : FetchResolve(c, resp)
    \/ \E error \in TransportErrors : FetchReject(c, error)

SpecLive ==
    /\ Init
    /\ [][Next]_vars
    /\ \A c \in Calls : WF_vars(FetchSettle(c)) /\ WF_vars(JsonSettle(c))

\* the keys any of the assignments seq[1..n] carries
AssignedKeys(seq) == UNION {Keys(seq[i]) : i \in DOMAIN seq}
\* the last assignment of seq that carries key k
LastAssignment(seq, k) ==
    CHOOSE i \in DOMAIN seq :
        /\ HasKey(seq[i], k)
        /\ \A j \in DOMAIN seq : j > i => ~HasKey(seq[j], k)

\* C1: after the baseQuery assignments M1..Mn (n >= 1) made to a fresh
\* descriptor, the stored base query is the right-biased shallow merge of
\* M1..Mn: its keys are the keys of all the Mi, and each key holds, whole,
\* the value its last assignment gave it.
C1_BaseQueryIsRightBiasedMerge ==
    \A r \in Reqs :
        Len(assigned[r]) >= 1 =>
            /\ UniqueKeys(baseQuery[r])
            /\ Keys(baseQuery[r]) = AssignedKeys(assigned[r])
            /\ \A k \in Keys(baseQuery[r]) :
                   Get(baseQuery[r], k) =
                       Get(assigned[r][LastAssignment(assigned[r], k)], k)

\* two assignments were made, the second gives another, nested, value to a
\* key of the first and lacks another key of the first
C1_Witness ==
    \E r \in Reqs :
        /\ Len(assigned[r]) >= 2
        /\ \E k \in Keys(assigned[r][1]) \cap Keys(assigned[r][2]) :
               /\ Get(assigned[r][1], k) # Get(assigned[r][2], k)
               /\ Get(assigned[r][1], k).type = "object"
               /\ Get(assigned[r][2], k).type = "object"
        /\ Keys(assigned[r][1]) \ Keys(assigned[r][2]) # {}

\* C2: in every state fullQuery is the shallow merge of the base query then
\* the per-call query: its keys are the union of both key sets, a key of the
\* per-call query holds the per-call query's value, any other key the base
\* query's value.
C2_FullQueryIsMergeQueryWins ==
    \A r \in Reqs :
        /\ UniqueKeys(fullQuery(r))
        /\ Keys(fullQuery(r)) = Keys(baseQuery[r]) \cup Keys(query[r])
        /\ \A k \in Keys(fullQuery(r)) :
               Get(fullQuery(r), k) =
                   IF HasKey(query[r], k) THEN Get(query[r], k)
                   ELSE Get(baseQuery[r], k)

\* the endpoint is set, base query and per-call query share a key with
\* different values, and the base query has a key the per-call query lacks
C2_Witness ==
    \E r \in Reqs :
        /\ endpoint[r] \notin {Null, ""}
        /\ \E k \in Keys(baseQuery[r]) \cap Keys(query[r]) :
               Get(baseQuery[r], k) # Get(query[r], k)
        /\ Keys(baseQuery[r]) \ Keys(query[r]) # {}
        /\ Keys(query[r]) \ Keys(baseQuery[r]) # {}

\* C3: the assignment request.query = Q leaves exactly Q stored, with no key
\* of the query stored before that Q lacks, and leaves the base query and the
\* endpoint as they were.
C3_QueryAssignmentReplaces ==
    [][\A r \in Reqs, q \in QueryInputs :
           SetQuery(r, q) =>
               /\ query'[r] = q
               /\ (Keys(query[r]) \ Keys(q)) \cap Keys(query'[r]) = {}
               /\ baseQuery' = baseQuery
               /\ endpoint' = endpoint]_vars

\* a call saw a per-call query, and the query stored now is another,
\* non-empty one that lacks one of its keys: a later assignment replaced it
C3_Witness ==
    \E c \in Calls :
        /\ pc[c] # "idle"
        /\ query[callReq[c]] # EmptyObject
        /\ Keys(snap[c].query) \ Keys(query[callReq[c]]) # {}

(***************************************************************************)
(* sendDBRequest seen from its caller.                                     *)
(***************************************************************************)
\* the effective query of the descriptor as call c was given it: the
\* mapping of the base query overridden by the per-call query
EffectiveMap(s) ==
    [k \in Keys(s.baseQuery) \cup Keys(s.query) |->
        IF HasKey(s.query, k) THEN Get(s.query, k) ELSE Get(s.baseQuery, k)]
EndpointUnset(s) == s.endpoint = Null \/ s.endpoint = ""
\* call c was invoked with a descriptor that meets both preconditions
PassedValidation(c) ==
    /\ pc[c] # "idle"
    /\ ~EndpointUnset(snap[c])
    /\ DOMAIN EffectiveMap(snap[c]) # {}
\* the calls of fetch that call c made
FetchesBy(c) == {i \in DOMAIN fetchLog : fetchLog[i].caller = c}
IsMissingParameter(c, parameter) ==
    /\ pc[c] = "done"
    /\ outcome[c].kind = "MRHMissingParameterError"
    /\ outcome[c].parameter = parameter

\* C4: a dispatch of a descriptor whose endpoint is null or empty fails with
\* the Missing-Parameter error naming "Endpoint", whatever its queries hold,
\* and so also when its effective query is empty.
C4_UnsetEndpointFailsNamingEndpoint ==
    \A c \in Calls :
        (pc[c] # "idle" /\ EndpointUnset(snap[c])) =>
            IsMissingParameter(c, "Endpoint")

\* a descriptor with no endpoint and an empty effective query was
\* dispatched, and another call saw no endpoint and a non-empty query
C4_Witness ==
    /\ \E c \in Calls :
           /\ pc[c] = "done"
           /\ EndpointUnset(snap[c])
           /\ DOMAIN EffectiveMap(snap[c]) = {}
    /\ \E c \in Calls :
           /\ pc[c] = "done"
           /\ EndpointUnset(snap[c])
           /\ DOMAIN EffectiveMap(snap[c]) # {}

\* C5: a dispatch with the endpoint set and an empty effective query fails
\* with the Missing-Parameter error naming "Query"; a dispatch with the
\* endpoint set, an empty per-call query and a non-empty base query passes
\* validation: it raises no Missing-Parameter error and calls fetch.
C5_EmptyEffectiveQueryFailsNamingQuery ==
    \A c \in Calls :
        /\ (pc[c] # "idle" /\ ~EndpointUnset(snap[c])
               /\ snap[c].baseQuery = EmptyObject /\ snap[c].query = EmptyObject)
           => IsMissingParameter(c, "Query")
        /\ (pc[c] # "idle" /\ ~EndpointUnset(snap[c])
               /\ snap[c].baseQuery # EmptyObject /\ snap[c].query = EmptyObject)
           => /\ outcome[c].kind # "MRHMissingParameterError"
              /\ FetchesBy(c) # {}

\* one call failed naming "Query", another passed on its base query alone
C5_Witness ==
    /\ \E c \in Calls : IsMissingParameter(c, "Query")
    /\ \E c \in Calls :
           /\ pc[c] # "idle"
           /\ ~EndpointUnset(snap[c])
           /\ snap[c].baseQuery # EmptyObject
           /\ snap[c].query = EmptyObject
           /\ FetchesBy(c) # {}

\* C6: a dispatch that fails with a Missing-Parameter error made no call of
\* fetch.
C6_MissingParameterMakesNoFetch ==
    \A c \in Calls :
        outcome[c].kind = "MRHMissingParameterError" => FetchesBy(c) = {}

\* a call failed on validation and made no call of fetch, while another
\* call of the same behaviour reached fetch
C6_Witness ==
    \E c, d \in Calls :
        /\ FetchesBy(d) # {}
        /\ outcome[c].kind = "MRHMissingParameterError"
        /\ FetchesBy(c) = {}

\* the sequences that list each element of S once
RECURSIVE Orderings(_)
Orderings(S) ==
    IF S = {} THEN {<< >>}
    ELSE UNION {{<<k>> \o t : t \in Orderings(S \ {k})} : k \in S}
\* text is the JSON text of an object that denotes mapping m
IsJsonTextOf(text, m) ==
    \E o \in Orderings(DOMAIN m) :
        text = JSONStringify([i \in DOMAIN o |-> Member(o[i], m[o[i]])])

\* the body the specification gives call c: dataSource and database as
\* configured, overridden by the effective query
ExpectedBodyMap(c) ==
    LET eff == EffectiveMap(snap[c]) IN
    [k \in {"dataSource", "database"} \cup DOMAIN eff |->
        IF k \in DOMAIN eff THEN eff[k] ELSE JStr(config[k])]

\* C7: the body of every request sent is the JSON text of the mapping
\* {dataSource, database} as configured, shallow-merged with the effective
\* query, which is applied last: each key of the effective query holds its
\* effective value, also the keys dataSource and database, and there is no
\* other key.
C7_BodyIsConfigOverriddenByFullQuery ==
    \A i \in DOMAIN fetchLog :
        IsJsonTextOf(fetchLog[i].init.body, ExpectedBodyMap(fetchLog[i].caller))

\* a request was sent whose effective query has the key dataSource, with
\* another value than the configured one, and a key of its own
C7_Witness ==
    \E i \in DOMAIN fetchLog :
        LET eff == EffectiveMap(snap[fetchLog[i].caller]) IN
        /\ "dataSource" \in DOMAIN eff
        /\ eff["dataSource"] # JStr(config.dataSource)
        /\ DOMAIN eff \ {"dataSource", "database"} # {}

\* the headers the specification gives call c: the two defaults, overridden by
\* the headers assigned to the descriptor
ExpectedHeadersMap(c) ==
    LET custom == IF snap[c].headers.type = "object"
                  THEN snap[c].headers.members ELSE EmptyObject
    IN  [k \in {"Content-Type", "api-key"} \cup Keys(custom) |->
            IF HasKey(custom, k) THEN Get(custom, k)
            ELSE IF k = "Content-Type" THEN "application/json"
            ELSE config.apiKey]

\* C8: the headers of every request sent are {Content-Type:
\* "application/json", api-key: the configured key} merged with the headers
\* of the descriptor, a header of the descriptor winning over a default of
\* the same name.
C8_HeadersAreDefaultsOverriddenByCustom ==
    \A i \in DOMAIN fetchLog :
        AsMap(fetchLog[i].init.headers) = ExpectedHeadersMap(fetchLog[i].caller)

\* call c ended in the catch block because fetch rejected
FetchRejected(c) ==
    /\ pc[c] = "done"
    /\ outcome[c].kind = "MRHRequestError"
    /\ response[c] = NoResponse

\* C9: when the fetch of a validated dispatch rejects, the dispatch fails
\* with a Request-Error that carries the endpoint of the descriptor, its
\* effective query, and the message text of the transport error, a
\* non-empty string.
C9_RequestErrorCarriesMessageText ==
    \A c \in Calls :
        FetchRejected(c) =>
            /\ outcome[c].kind # "MRHMissingParameterError"
            /\ outcome[c].endpoint = snap[c].endpoint
            /\ AsMap(outcome[c].query) = EffectiveMap(snap[c])
            /\ \E error \in TransportErrors :
                   /\ error.message # ""
                   /\ outcome[c].mongoErrorMessage = JStr(error.message)

\* C10: a dispatch that passes validation makes exactly one call of fetch,
\* with method POST, whatever becomes of it; a dispatch that does not makes
\* none; so the calls of fetch are as many as the dispatches that passed
\* validation.
C10_ExactlyOneFetchPerValidDispatch ==
    /\ \A c \in Calls :
           /\ PassedValidation(c) =>
                  /\ Cardinality(FetchesBy(c)) = 1
                  /\ \A i \in FetchesBy(c) : fetchLog[i].init.method = "POST"
           /\ ~PassedValidation(c) => FetchesBy(c) = {}
    /\ Len(fetchLog) = Cardinality({c \in Calls : PassedValidation(c)})

\* two dispatches passed validation and ended in failure: one by a rejected
\* fetch, one by a body that is not JSON
C10_Witness ==
    \E c, d \in Calls :
        /\ FetchRejected(c)
        /\ pc[d] = "done"
        /\ outcome[d].kind = "MRHRequestError"
        /\ response[d] # NoResponse
        /\ Len(fetchLog) = 2

\* the fetch of call c resolved with a Response whose body is JSON text
ParsedBody(c) ==
    /\ pc[c] = "done"
    /\ response[c] # NoResponse
    /\ ResponseJson(response[c]).ok

UnparsableBody(c) ==
    /\ pc[c] = "done"
    /\ response[c] # NoResponse
    /\ ~ResponseJson(response[c]).ok

\* C12, as stated: when fetch resolves and the body is not JSON text, the
\* parse failure leaves the dispatch as a generic failure: the dispatch does
\* not catch it, and it is neither a Request-Error nor a Missing-Parameter
\* error.
C12_ParseFailurePropagatesUnclassified ==
    \A c \in Calls :
        UnparsableBody(c) =>
            outcome[c].kind \notin
                {"result", "MRHRequestError", "MRHMissingParameterError"}

\* C12, amended: when fetch resolves and the body is not JSON text, the
\* catch block of the dispatch catches the parse failure, and the dispatch
\* fails with a Request-Error, as it does when fetch rejects; it returns no
\* result and raises no Missing-Parameter error.
C12_ParseFailureBecomesRequestError ==
    \A c \in Calls :
        UnparsableBody(c) =>
            /\ outcome[c].kind = "MRHRequestError"
            /\ settled[c] = 1

\* a dispatch got a 404 Response with an empty body and failed
C12_Witness ==
    \E c \in Calls :
        /\ UnparsableBody(c)
        /\ response[c].status = 404
        /\ response[c].text = ""
        /\ outcome[c].kind \notin {"result", "pending"}

\* C13: the URL of every request sent is the configured base URL followed
\* at once by the endpoint string the descriptor held when it was
\* dispatched: no separator is put between them and no character of either
\* is dropped or encoded.
C13_UrlIsBaseUrlThenEndpoint ==
    \A i \in DOMAIN fetchLog :
        fetchLog[i].url = config.baseUrl \o snap[fetchLog[i].caller].endpoint

\* a request went to the endpoint "/findOne": its URL is the base URL,
\* which ends without a slash, followed by the endpoint, which begins with one
C13_Witness ==
    \E i \in DOMAIN fetchLog :
        /\ snap[fetchLog[i].caller].endpoint = "/findOne"
        /\ fetchLog[i].url = "https://data.example/action/findOne"

\* C14: a descriptor to which nothing was assigned yet has the endpoint
\* null, an empty base query, an empty per-call query and empty headers;
\* the dispatch of such a descriptor fails with the Missing-Parameter error
\* naming "Endpoint".
C14_FreshDescriptorIsEmpty ==
    /\ nsteps = 0 =>
           \A r \in Descriptors :
               /\ endpoint[r] = Null
               /\ GetBaseQuery(r) = EmptyObject
               /\ query[r] = EmptyObject
               /\ headers[r] = JObj(EmptyObject)
    /\ (nsteps = 1 /\ pc[1] # "idle") => IsMissingParameter(1, "Endpoint")

\* C15: the assignment request.headers = H leaves exactly H to be read from
\* the descriptor: no header assigned before is kept and none is added; it
\* leaves the endpoint, the base query and the per-call query as they were.
C15_HeadersAssignmentReplaces ==
    [][\A r \in Reqs, h \in HeaderInputs :
           SetHeaders(r, h) =>
               /\ headers'[r].type = "object"
               /\ headers'[r].members = h
               /\ endpoint' = endpoint
               /\ baseQuery' = baseQuery
               /\ query' = query]_vars

\* a call saw headers assigned to its descriptor, and the headers the
\* descriptor has now are other ones that lack a header of those: a later
\* assignment replaced them
C15_Witness ==
    \E c \in Calls :
        /\ pc[c] # "idle"
        /\ snap[c].headers.type = "object"
        /\ headers[callReq[c]].type = "object"
        /\ Keys(snap[c].headers.members) \ Keys(headers[callReq[c]].members) # {}
        /\ Keys(headers[callReq[c]].members) # {}

\* C16: a read of the effective query changes no field of the descriptor
\* and returns the merge of the base query and the per-call query as they
\* are when it is made, so a read made after an assignment reflects the
\* assignment; a read that follows a read of the same fields returns an
\* equal value (the same keys with the same values).
C16_FullQueryReadIsFreshAndPure ==
    [][\A r \in Reqs :
           ReadFullQuery(r) =>
               /\ endpoint' = endpoint
               /\ baseQuery' = baseQuery
               /\ query' = query
               /\ lastRead'[r].reads = lastRead[r].reads + 1
               /\ UniqueKeys(lastRead'[r].value)
               /\ AsMap(lastRead'[r].value) = EffectiveMap(SnapOf(r))
               /\ (lastRead[r].reads > 0
                      /\ AsMap(lastRead[r].value) = EffectiveMap(SnapOf(r)))
                  => AsMap(lastRead'[r].value) = AsMap(lastRead[r].value)]_vars

\* two assignments, one to the base query and one to the query, and two
\* reads were made: the later read, made after both assignments, returned a
\* value with keys of both
C16_Witness ==
    \E r \in Reqs :
        /\ nsteps = 4
        /\ Len(assigned[r]) = 1
        /\ lastRead[r].reads = 2
        /\ AsMap(lastRead[r].value) = EffectiveMap(SnapOf(r))
        /\ Keys(lastRead[r].value) \ Keys(query[r]) # {}
        /\ Keys(lastRead[r].value) \ Keys(baseQuery[r]) # {}

\* C17: the Request-Error a dispatch fails with carries the endpoint and
\* the effective query of the request that dispatch sent, also when the
\* endpoint, the query or the base query of the descriptor is reassigned
\* while the request is in flight: the URL of the request is the base URL
\* followed by the endpoint of the error, and its body was built from the
\* effective query of the error.
C17_RequestErrorCarriesWhatWasSent ==
    \A c \in Calls :
        (pc[c] = "done" /\ outcome[c].kind = "MRHRequestError") =>
            /\ \A i \in FetchesBy(c) :
                   /\ fetchLog[i].url = config.baseUrl \o outcome[c].endpoint
                   /\ IsJsonTextOf(fetchLog[i].init.body,
                          [k \in {"dataSource", "database"} \cup Keys(outcome[c].query) |->
                              IF HasKey(outcome[c].query, k)
                              THEN Get(outcome[c].query, k)
                              ELSE JStr(config[k])])
            /\ outcome[c].endpoint = snap[c].endpoint
            /\ AsMap(outcome[c].query) = EffectiveMap(snap[c])

\* the calls before call c that sent a request for descriptor r
EarlierRequests(c, r) ==
    {d \in Calls : d < c /\ callReq[d] = r /\ FetchesBy(d) # {}}

\* the body of a request for a descriptor with base query b whose query was
\* last assigned q: dataSource and database as configured, overridden by b,
\* overridden by q
ReuseBodyMap(b, q) ==
    [k \in {"dataSource", "database"} \cup Keys(b) \cup Keys(q) |->
        IF HasKey(q, k) THEN Get(q, k)
        ELSE IF HasKey(b, k) THEN Get(b, k)
        ELSE JStr(config[k])]

\* C18: when a descriptor that already sent a request is dispatched again
\* after query, and possibly endpoint, were assigned anew, the body of the
\* new request has exactly the keys dataSource, database, the keys of the
\* base query and the keys of the query assigned last, so no key that only
\* an earlier query had; every key the base query had at an earlier
\* request it still has.
C18_ReusedDescriptorSendsNoStaleKey ==
    [][\A c \in Calls, r \in Reqs :
           (Dispatch(c, r) /\ EarlierRequests(c, r) # {}
                /\ Len(fetchLog') = Len(fetchLog) + 1) =>
               /\ IsJsonTextOf(fetchLog'[Len(fetchLog')].init.body,
                               ReuseBodyMap(baseQuery[r], queryArg[r]))
               /\ \A d \in EarlierRequests(c, r) :
                      /\ Keys(snap[d].baseQuery) \subseteq Keys(baseQuery[r])
                      /\ \A k \in Keys(snap[d].baseQuery) :
                             Get(snap[d].baseQuery, k) = Get(baseQuery[r], k)]_vars

\* a descriptor with a base query sent two requests, to two endpoints; the
\* query of the first had a key that neither the query of the second, nor
\* the base query, nor the configuration has
C18_Witness ==
    \E c, d \in Calls :
        /\ d \in EarlierRequests(c, callReq[c])
        /\ FetchesBy(c) # {}
        /\ snap[c].endpoint # snap[d].endpoint
        /\ snap[c].baseQuery # EmptyObject
        /\ snap[c].query # EmptyObject
        /\ Keys(snap[d].query) \ (Keys(snap[c].query) \cup Keys(snap[c].baseQuery)
                                     \cup {"dataSource", "database"}) # {}

\* call c settled as it does when it is the only call: with the parsed body
\* of its own Response, or with a Request-Error made of the fields of the
\* descriptor it was given and of the error of its own transport call
SettledAsAlone(c) ==
    IF response[c] # NoResponse /\ ResponseJson(response[c]).ok
    THEN outcome[c] = [kind |-> "result", value |-> ResponseJson(response[c]).value]
    ELSE /\ outcome[c].kind = "MRHRequestError"
         /\ outcome[c].endpoint = snap[c].endpoint
         /\ AsMap(outcome[c].query) = EffectiveMap(snap[c])
         /\ IF response[c] = NoResponse
            THEN outcome[c].mongoErrorMessage \in TransportErrors
            ELSE outcome[c].mongoErrorMessage = ResponseJson(response[c]).error

\* C19: of dispatches of descriptors that are in flight together, whatever
\* the order in which their transport calls complete, each makes one
\* request, to the configured base URL followed by the endpoint of its own
\* descriptor, with the configured api-key and a body built from the
\* configured dataSource and database and the effective query of its own
\* descriptor, and settles with the parsed body of its own Response, or
\* with a Request-Error carrying the endpoint and the effective query of
\* its own descriptor: what it does when it runs alone.
C19_ConcurrentDispatchesIndependent ==
    \A c \in Calls :
        pc[c] # "idle" =>
            /\ snap[c] = SnapOf(callReq[c])
            /\ Cardinality(FetchesBy(c)) = 1
            /\ \A i \in FetchesBy(c) :
                   /\ fetchLog[i].url = config.baseUrl \o endpoint[callReq[c]]
                   /\ IsJsonTextOf(fetchLog[i].init.body, ExpectedBodyMap(c))
                   /\ Get(fetchLog[i].init.headers, "api-key") = config.apiKey
            /\ pc[c] = "done" => SettledAsAlone(c)
            /\ pc[c] # "done" => outcome[c] = Pending

\* two descriptors that differ in endpoint and effective query were in
\* flight together, and the call invoked second failed on a rejected fetch
\* while the call invoked first still awaits its fetch
C19_Witness ==
    /\ pc[1] = "fetch"
    /\ FetchRejected(2)
    /\ callReq[1] # callReq[2]
    /\ snap[1].endpoint # snap[2].endpoint
    /\ EffectiveMap(snap[1]) # EffectiveMap(snap[2])

\* the requests call c sent: URL and body
RequestsOf(c) ==
    {[url |-> fetchLog[i].url, body |-> fetchLog[i].init.body] : i \in FetchesBy(c)}

\* C20: no step of sendDBRequest, from its invocation to its settling with
\* a result, a Missing-Parameter error or a Request-Error, changes the
\* endpoint, the base query or the per-call query of a descriptor; and two
\* dispatches of a descriptor whose fields are the same at both send the
\* same URL and body, and settle with the same kind of outcome when their
\* transport calls end the same way.
C20_DispatchLeavesDescriptorUnchanged ==
    /\ [][\A c \in Calls :
              (\/ \E r \in Reqs : Dispatch(c, r)
               \/ \E resp \in Responses : FetchResolve(c, resp)
               \/ \E error \in TransportErrors : FetchReject(c, error)
               \/ JsonSettle(c)) =>
                  /\ endpoint' = endpoint
                  /\ baseQuery' = baseQuery
                  /\ query' = query]_vars
    /\ [](\A c, d \in Calls :
              (pc[c] # "idle" /\ pc[d] # "idle"
                   /\ callReq[c] = callReq[d] /\ snap[c] = snap[d]) =>
                  /\ RequestsOf(c) = RequestsOf(d)
                  /\ (pc[c] = "done" /\ pc[d] = "done" /\ response[c] = response[d])
                     => outcome[c].kind = outcome[d].kind)

\* a descriptor was dispatched twice with no assignment in between; both
\* requests were sent and both dispatches failed on a rejected fetch, the
\* descriptor still being as it was dispatched
C20_Witness ==
    \E c, d \in Calls :
        /\ c # d
        /\ callReq[c] = callReq[d]
        /\ snap[c] = snap[d]
        /\ FetchRejected(c)
        /\ FetchRejected(d)
        /\ Len(fetchLog) = 2
        /\ SnapOf(callReq[c]) = snap[c]

\* the kinds of outcome a dispatch settles with
OutcomeKinds == {"result", "MRHRequestError", "MRHMissingParameterError"}

\* C21: every dispatch settles exactly once.  A dispatch that fails
\* validation is settled with a Missing-Parameter error as soon as it is
\* invoked, having called no fetch; a dispatch that passes validation is
\* pending while its fetch or its body read is awaited and, both settling
\* in the end, settles; a settled dispatch has one outcome, a result or one
\* error, which never changes afterwards, and it never settles again.
C21_DispatchSettlesExactlyOnce ==
    /\ [](\A c \in Calls :
              /\ settled[c] \in {0, 1}
              /\ settled[c] = 1 <=> pc[c] = "done"
              /\ settled[c] = 1 => outcome[c].kind \in OutcomeKinds
              /\ settled[c] = 0 => outcome[c] = Pending
              /\ (pc[c] # "idle" /\ ~PassedValidation(c)) =>
                     /\ pc[c] = "done"
                     /\ outcome[c].kind = "MRHMissingParameterError"
                     /\ FetchesBy(c) = {}
              /\ (pc[c] = "done" /\ PassedValidation(c)) =>
                     outcome[c].kind \in {"result", "MRHRequestError"})
    /\ [][\A c \in Calls :
              settled[c] = 1 => (settled'[c] = 1 /\ outcome'[c] = outcome[c])]_vars
    /\ \A c \in Calls : (pc[c] # "idle") ~> (pc[c] = "done")

\* of two dispatches one failed validation and one passed it, got a
\* Response and returned its parsed body; each settled once
C21_Witness ==
    \E c, d \in Calls :
        /\ IsMissingParameter(c, "Query")
        /\ settled[c] = 1
        /\ PassedValidation(d)
        /\ pc[d] = "done"
        /\ outcome[d].kind = "result"
        /\ settled[d] = 1
        /\ Cardinality(FetchesBy(d)) = 1

====
